---- MODULE Spec2Model ----
(***************************************************************************)
(* Model of the blog-post backend of src/main.py: one "posts" table, an    *)
(* external attachment store (bucket "post-images"), a shared-secret gate  *)
(* and the HTTP handlers get_posts, create_post, delete_post, update_post  *)
(* and upload_image.                                                       *)
(*                                                                         *)
(* Representation of Python values:                                        *)
(*   - None is the empty sequence <<>>; an Optional scalar x is <<x>>.     *)
(*   - A string that the code splits is kept as the result of the split:   *)
(*     a URL is the sequence of its "/"-separated segments and a segment   *)
(*     is the sequence of its "."-separated parts, so that                 *)
(*     s.split("/")[-1] is the last element of the sequence.  The empty    *)
(*     string "" splits into one empty segment.                            *)
(*   - A handler runs as a sequence of steps, one up to each call that    *)
(*     leaves the process.  Under Spec one call is served at a time and    *)
(*     the record store answers every commit.  Under SpecRace the calls    *)
(*     of several workers interleave and a commit may fail.                *)
(***************************************************************************)
EXTENDS Integers, Sequences, FiniteSets, TLC

\* ---- bounds of the model ------------------------------------------------
MaxId == 2          \* primary keys the table hands out: 1..MaxId
MaxClock == 1       \* readings of datetime.utcnow(): 0..MaxClock
MaxUploads == 2     \* distinct uuid4() values upload_image may draw
MaxLimit == 2       \* largest skip / limit a client passes to get_posts
MaxWorkers == 2     \* calls that can be in flight at once
MaxCalls == 3       \* create, update and delete calls of one interleaving

VARIABLES
    supabase,   \* TRUE iff the module-level storage client was created
    posts,      \* the posts table: id -> row, for the ids that exist
    blobs,      \* object keys present in bucket "post-images"
    issued,     \* uuid4() values already drawn by uploads
    now,        \* last reading of datetime.utcnow()
    updated,    \* history: ids with a successful update since their creation
    deleted,    \* history: ids deleted and not created again since
    last,       \* the call served in the last step and its response
    inflight,   \* calls between their lookup and their commit, per worker
    history     \* history: what clients were handed and what they supplied

vars == <<supabase, posts, blobs, issued, now, updated, deleted, last,
          inflight, history>>

\* ---- Python values ------------------------------------------------------
None == <<>>
Some(x) == <<x>>
Last(s) == s[Len(s)]
Min(a, b) == IF a < b THEN a ELSE b

\* The string "": one empty segment made of one empty part.
EmptyStr == << <<"">> >>

\* Python truthiness of an Optional[str]: None and "" are falsy.
Truthy(s) == s # None /\ s # EmptyStr

ADMIN_PASSWORD == "TvojeTajneHeslo"

Ids == 1..MaxId
Clock == 0..MaxClock
Uuids == {ToString(n) : n \in 1..MaxUploads}

\* ---- attachment store ---------------------------------------------------
\* file_ext = file.filename.split(".")[-1]
FileExt(filename) == Last(filename)

\* file_name = f"{uuid.uuid4()}.{file_ext}"
FileName(uuid, file_ext) == <<uuid, file_ext>>

\* get_public_url(file_name): the bucket's public prefix followed by the key.
PublicUrl(file_name) ==
    << <<"https:">>, <<"">>, <<"project", "supabase", "co">>, <<"storage">>,
       <<"v1">>, <<"object">>, <<"public">>, <<"post-images">>, file_name >>

\* Variant of BlobKeyOf: the segment before the last one.
BlobKeyOfParent(image_url) == image_url[Len(image_url) - 1]

\* file_name = db_post.image_url.split("/")[-1]
BlobKeyOf(image_url) == Last(image_url)

\* ---- inputs --------------------------------------------------------------
\* Upload file names: "photo.png" and a name without a dot.
Filenames == { <<"photo", "png">>, <<"png">> }

\* x-admin-password header: absent, the secret, the secret in another case.
Headers == { None, Some(ADMIN_PASSWORD), Some("tvojetajneheslo") }

Url1 == PublicUrl(FileName(ToString(1), "png"))
Url2 == PublicUrl(FileName(ToString(MaxUploads), "png"))

\* A JSON body of POST /posts or PUT /posts/{id}; a field that is absent from
\* the body is None.
Body(title, text, image_url, include_timestamps) ==
    [ title |-> title, text |-> text, image_url |-> image_url,
      include_timestamps |-> include_timestamps ]

\* The bodies clients send: no image, an uploaded image, another uploaded
\* image, the empty string as image_url, empty title and text, the flag
\* given or left out, and one body without a title.
Bodies ==
    { Body(Some("A"), Some("B"), None, None),
      Body(Some("A2"), Some("B2"), Url1, Some(FALSE)),
      Body(Some("A2"), Some("B2"), Url2, Some(TRUE)),
      Body(Some(""), Some(""), EmptyStr, Some(FALSE)),
      Body(None, Some("B"), None, None) }

\* ---- pydantic models ----------------------------------------------------
\* title: str and text: str are required; any str, "" included, is accepted.
ValidBody(raw) == raw.title # None /\ raw.text # None

\* Variant of PostCreate: include_timestamps of the body is ignored.
PostCreateNoFlag(raw) ==
    [ title |-> raw.title[1], text |-> raw.text[1],
      image_url |-> raw.image_url, include_timestamps |-> TRUE ]

PostCreate(raw) ==
    [ title |-> raw.title[1],
      text |-> raw.text[1],
      image_url |-> raw.image_url,
      include_timestamps |->
          IF raw.include_timestamps = None THEN TRUE
          ELSE raw.include_timestamps[1] ]

PostUpdate(raw) ==
    [ title |-> raw.title[1],
      text |-> raw.text[1],
      image_url |-> raw.image_url,
      include_timestamps |->
          IF raw.include_timestamps = None THEN TRUE
          ELSE raw.include_timestamps[1] ]

\* ---- access gate --------------------------------------------------------
\* TRUE iff verify_password returns without raising.
verify_password(x_admin_password) == x_admin_password = Some(ADMIN_PASSWORD)

\* ---- record store -------------------------------------------------------
\* Variant of Lookup: the filter on the id is lost and .first() returns the
\* first row of the table.
LookupUnfiltered(post_id) ==
    IF posts = << >> THEN None
    ELSE Some(posts[CHOOSE i \in DOMAIN posts : \A j \in DOMAIN posts : i <= j])

\* db.query(Post).filter(Post.id == post_id).first()
Lookup(post_id) ==
    IF post_id \in DOMAIN posts THEN Some(posts[post_id]) ELSE None

Put(table, row) ==
    [ i \in DOMAIN table \cup {row.id} |-> IF i = row.id THEN row ELSE table[i] ]

Remove(table, id) == [ i \in DOMAIN table \ {id} |-> table[i] ]

\* Variant of NewRow: updated_at is stamped at creation.
NewRowStamped(id, post, t) ==
    [ id |-> id, title |-> post.title, text |-> post.text,
      image_url |-> post.image_url, at |-> t, updated_at |-> Some(t),
      include_timestamps |-> post.include_timestamps ]

\* Variant of NewRow: the image reference of the request is not stored.
NewRowNoImage(id, post, t) ==
    [ id |-> id, title |-> post.title, text |-> post.text,
      image_url |-> None, at |-> t, updated_at |-> None,
      include_timestamps |-> post.include_timestamps ]

\* Post(title=..., text=..., image_url=..., at=utcnow(), include_timestamps=...)
\* after db.add / db.commit / db.refresh; updated_at keeps its NULL default.
NewRow(id, post, t) ==
    [ id |-> id,
      title |-> post.title,
      text |-> post.text,
      image_url |-> post.image_url,
      at |-> t,
      updated_at |-> None,
      include_timestamps |-> post.include_timestamps ]

\* Variant of UpdatedRow: the assignment of image_url is missing.
UpdatedRowKeepsImage(db_post, post_update, t) ==
    [ db_post EXCEPT
        !.title = post_update.title,
        !.text = post_update.text,
        !.updated_at = Some(t),
        !.include_timestamps = post_update.include_timestamps ]

\* The five assignments of update_post.
UpdatedRow(db_post, post_update, t) ==
    [ db_post EXCEPT
        !.title = post_update.title,
        !.text = post_update.text,
        !.image_url = post_update.image_url,
        !.updated_at = Some(t),
        !.include_timestamps = post_update.include_timestamps ]

\* Variant of RowsAfterDelete: the delete is never committed.
RowsKept(db_post) == posts

\* db.delete(db_post); db.commit()
RowsAfterDelete(db_post) == Remove(posts, db_post.id)

\* Variant of RowsAfterFailedCommit: the row is written although the commit
\* raised.
RowsWrittenAnyway(call, row) ==
    IF row.id \in DOMAIN posts THEN Put(posts, row) ELSE posts

\* db.commit() raised: the transaction is rolled back when get_db closes the
\* session, so the table is as it was.
RowsAfterFailedCommit(call, row) == posts

\* The UPDATE that db.commit() emits: the session writes the columns whose
\* assigned value differs from the value it loaded at the lookup, and leaves
\* the other columns as the table has them now.
Flush(current, snap, row) ==
    [ c \in DOMAIN row |-> IF row[c] # snap[c] THEN row[c] ELSE current[c] ]

\* Variant of RowsAfterUpload: the upload attaches the new URL to the row
\* with the highest id.
RowsAttached(public_url) ==
    IF posts = << >> THEN posts
    ELSE LET i == CHOOSE i \in DOMAIN posts : \A j \in DOMAIN posts : j <= i
         IN [ posts EXCEPT ![i].image_url = public_url ]

\* upload_image takes no db session: the table after an upload is the table
\* before it.
RowsAfterUpload(public_url) == posts

\* ---- blob cleanup conditions --------------------------------------------
\* if db_post.image_url and supabase:
DeleteRemovesBlob(db_post) == Truthy(db_post.image_url) /\ supabase

\* Variant of UpdateRemovesBlob: the comparison with the incoming value is
\* missing, so every update of a post with an image removes its blob.
UpdateRemovesBlobAlways(db_post, post_update) ==
    Truthy(db_post.image_url) /\ supabase

\* if db_post.image_url and db_post.image_url != post_update.image_url and supabase:
UpdateRemovesBlob(db_post, post_update) ==
    /\ Truthy(db_post.image_url)
    /\ db_post.image_url # post_update.image_url
    /\ supabase

\* Variant of HandlerContinues: no try/except around the remove call.
HandlerStops(raised) == ~raised

\* try: remove([file_name]) except Exception: print(...)  -- TRUE iff the
\* handler goes on after the remove call, whether or not it raised.
HandlerContinues(raised) == TRUE

\* ---- get_posts ----------------------------------------------------------
Perms(S) ==
    { f \in [1..Cardinality(S) -> S] :
        \A a, b \in 1..Cardinality(S) : a # b => f[a] # f[b] }

\* ORDER BY at DESC: every order of the rows with non-increasing "at".  Rows
\* with equal "at" have no order of their own: each query may return them in
\* any order.
OrderByAtDesc ==
    { o \in Perms(DOMAIN posts) :
        \A a, b \in 1..Len(o) : a < b => posts[o[a]].at >= posts[o[b]].at }

\* .offset(skip).limit(limit).all() over one ordering
Page(o, skip, limit) ==
    [ k \in 1..(Min(skip + limit, Len(o)) - Min(skip, Len(o))) |->
        posts[o[Min(skip, Len(o)) + k]] ]

\* ---- responses ----------------------------------------------------------
Resp(op, pwd, status, message) ==
    [ op |-> op, pwd |-> pwd, id |-> 0, skip |-> 0, limit |-> 0, req |-> None,
      status |-> status, message |-> message, post |-> None, pages |-> <<>>,
      removed |-> <<>>, remove_failed |-> FALSE, image_url |-> None,
      blob_removed |-> FALSE, commit_failed |-> FALSE, overlap |-> "none",
      step |-> "", worker |-> 0 ]

\* No call is in flight; nothing was handed out or supplied yet.
Workers == 1..MaxWorkers
Idle == [ op |-> "idle" ]
NoCalls == [ w \in Workers |-> Idle ]
NoHistory == [ returned |-> {}, supplied |-> {}, calls |-> 0 ]

Unauthorized(op, pwd) == Resp(op, pwd, 401, "Unauthorized")

StoresUnchanged ==
    UNCHANGED <<posts, blobs, issued, now, updated, deleted, inflight>>

Init ==
    /\ supabase \in BOOLEAN
    /\ posts = << >>
    /\ blobs = {}
    /\ issued = {}
    /\ now = 0
    /\ updated = {}
    /\ deleted = {}
    /\ last = Resp("start", None, 0, "")
    /\ inflight = NoCalls
    /\ history = NoHistory


\* ---- handlers -----------------------------------------------------------
\* A handler runs on a worker as a sequence of steps, one step up to each
\* call that leaves the process (a query, a commit, a refresh, a storage
\* call); between two steps the other workers may run.  inflight[w] is the
\* call worker w is serving, with the local variables of its handler.

\* The routes that declare pwd = Depends(verify_password).
GatedRoutes == {"create_post", "delete_post", "update_post", "upload_image"}

\* The routes that declare a JSON body parameter.
BodyRoutes == {"create_post", "update_post"}

\* A worker that serves no call; the smallest one takes the next call.
IdleWorker(w) ==
    /\ inflight[w] = Idle
    /\ \A v \in Workers : v < w => inflight[v] # Idle

\* The local variables of a handler that has just been entered.
Call(op, pwd, post_id, req) ==
    [ op |-> op, pwd |-> pwd, id |-> post_id, req |-> req, pc |-> "start",
      snap |-> None, t |-> 0, file_name |-> <<>>, removed |-> <<>>,
      remove_failed |-> FALSE, blob_removed |-> FALSE, overlapped |-> "none" ]

\* What the call of worker w has settled of its response after a step.
InFlight(w, step, call) ==
    [ Resp(call.op, call.pwd, 0, "in flight") EXCEPT
        !.id = call.id, !.req = call.req, !.removed = call.removed,
        !.remove_failed = call.remove_failed,
        !.blob_removed = call.blob_removed, !.overlap = call.overlapped,
        !.step = step, !.worker = w ]

\* A response given by the first step of a handler.
Early(w, step, resp) == [ resp EXCEPT !.step = step, !.worker = w ]

\* Worker w hands its response over and is idle again.
Done(w) == [ inflight EXCEPT ![w] = Idle ]

\* Worker w has committed op on post_id: it goes on as call (or is idle), and
\* the other calls in flight on post_id have overlapped with a committed op.
Overlapping(w, call, post_id, op) ==
    [ v \in Workers |->
        IF v = w THEN call
        ELSE IF inflight[v] # Idle /\ inflight[v].id = post_id
                /\ inflight[v].op \in {"update_post", "delete_post"}
                /\ inflight[v].overlapped = "none"
             THEN [ inflight[v] EXCEPT !.overlapped = op ]
             ELSE inflight[v] ]

\* The request body of a route with a JSON body is read and decoded before
\* any dependency runs: a body that is not JSON is answered 422 whatever the
\* header is, and neither verify_password nor the handler runs.
JsonDecodeRaises(op, pwd) ==
    /\ op \in BodyRoutes
    /\ last' = Resp(op, pwd, 422, "json_invalid")
    /\ StoresUnchanged
    /\ UNCHANGED supabase

\* The multipart form of upload_image is read and parsed before any
\* dependency runs, as the JSON bodies are: a form that does not parse (no
\* boundary, say) is answered 400 whatever the header is.
FormParseRaises(pwd) ==
    /\ last' = Resp("upload_image", pwd, 400, "Missing boundary in multipart.")
    /\ StoresUnchanged
    /\ UNCHANGED supabase

\* A call to a gated route, with a body that parses where the route has one,
\* whose header does not pass verify_password: the dependency raises 401 and
\* the handler body never runs, whatever the path parameter and the fields
\* of the body are.
VerifyPasswordRaises(op, pwd) ==
    /\ ~verify_password(pwd)
    /\ last' = Unauthorized(op, pwd)
    /\ StoresUnchanged
    /\ UNCHANGED supabase

\* GET /posts?skip&limit
GetPosts(skip, limit) ==
    /\ \E o \in OrderByAtDesc :
         last' = [ Resp("get_posts", None, 200, "") EXCEPT
                     !.skip = skip, !.limit = limit,
                     !.pages = << Page(o, skip, limit) >> ]
    /\ StoresUnchanged
    /\ UNCHANGED supabase

\* A client reading the whole list with page size limit: GET /posts at skip
\* 0, limit, 2*limit, ... until a page comes back short, with no other call
\* in between.  Each GET is its own query.
Paginate(limit) ==
    /\ limit >= 1
    /\ LET n == Cardinality(DOMAIN posts)
           calls == (n \div limit) + 1
       IN \E os \in [1..calls -> OrderByAtDesc] :
            last' = [ Resp("paginate", None, 200, "") EXCEPT
                        !.limit = limit,
                        !.pages = [ k \in 1..calls |->
                                      Page(os[k], (k - 1) * limit, limit) ] ]
    /\ StoresUnchanged
    /\ UNCHANGED supabase

\* ---- create_post --------------------------------------------------------
\* Creates in flight that have not inserted their row yet.
PendingCreates ==
    { v \in Workers : inflight[v] # Idle /\ inflight[v].op = "create_post"
                      /\ inflight[v].pc = "commit" }

\* POST /posts up to db.add: body validation, then the row is built with the
\* clock reading of line 99.  (The id bound leaves a free id for every create
\* in flight.)
CreateBuild(w, pwd, raw) ==
    /\ IdleWorker(w)
    /\ verify_password(pwd)
    /\ UNCHANGED <<supabase, posts, blobs, issued, updated, deleted>>
    /\ IF ~ValidBody(raw)
       THEN /\ last' = [ Resp("create_post", pwd, 422, "missing")
                           EXCEPT !.step = "build", !.worker = w,
                                  !.req = Some(raw) ]
            /\ UNCHANGED <<now, inflight>>
       ELSE /\ Cardinality(Ids \ DOMAIN posts) > Cardinality(PendingCreates)
            /\ \E t \in now..MaxClock :
                 LET call == [ Call("create_post", pwd, 0, Some(raw)) EXCEPT
                                 !.pc = "commit", !.t = t ]
                 IN /\ now' = t
                    /\ inflight' = [ inflight EXCEPT ![w] = call ]
                    /\ last' = InFlight(w, "build", call)

\* db.commit() of create_post: the INSERT gives the row an id that no row of
\* the table has (the next of a sequence on PostgreSQL, max + 1 on SQLite,
\* which hands the id of a deleted last row out again), or the commit raises.
CreateCommit(w, id, raised) ==
    /\ inflight[w] # Idle
    /\ inflight[w].op = "create_post"
    /\ inflight[w].pc = "commit"
    /\ id \in Ids \ DOMAIN posts
    /\ UNCHANGED <<supabase, blobs, issued, now>>
    /\ LET call == inflight[w]
           db_post == NewRow(id, PostCreate(call.req[1]), call.t)
       IN IF raised
          THEN /\ posts' = RowsAfterFailedCommit(call, db_post)
               /\ inflight' = Done(w)
               /\ last' = [ InFlight(w, "commit", call) EXCEPT
                              !.status = 500, !.message = "OperationalError",
                              !.commit_failed = TRUE ]
               /\ UNCHANGED <<updated, deleted>>
          ELSE LET after == [ call EXCEPT !.id = id, !.pc = "refresh",
                                          !.snap = Some(db_post) ]
               IN /\ posts' = Put(posts, db_post)
                  /\ updated' = updated \ {id}
                  /\ deleted' = deleted \ {id}
                  /\ inflight' = [ inflight EXCEPT ![w] = after ]
                  /\ last' = InFlight(w, "commit", after)

\* db.refresh(db_post) and the return of create_post and update_post: the
\* row is read again and returned as the table has it now; when it is gone
\* the refresh raises.
Refresh(w) ==
    /\ inflight[w] # Idle
    /\ inflight[w].pc = "refresh"
    /\ inflight' = Done(w)
    /\ LET call == inflight[w] IN
       IF call.id \in DOMAIN posts
       THEN last' = [ InFlight(w, "refresh", call) EXCEPT
                        !.status = 200, !.message = "",
                        !.post = Some(posts[call.id]) ]
       ELSE last' = [ InFlight(w, "refresh", call) EXCEPT
                        !.status = 500, !.message = "InvalidRequestError" ]
    /\ UNCHANGED <<supabase, posts, blobs, issued, now, updated, deleted>>

\* ---- update_post and delete_post ----------------------------------------
\* update_post up to its lookup: body validation, the 404 answer, or a call
\* in flight that holds the row as the lookup loaded it.
UpdateLookup(w, pwd, post_id, raw) ==
    /\ IdleWorker(w)
    /\ verify_password(pwd)
    /\ UNCHANGED <<supabase, posts, blobs, issued, now, updated, deleted>>
    /\ IF ~ValidBody(raw)
       THEN /\ last' = [ Resp("update_post", pwd, 422, "missing")
                           EXCEPT !.step = "lookup", !.worker = w,
                                  !.id = post_id, !.req = Some(raw) ]
            /\ UNCHANGED inflight
       ELSE LET found == Lookup(post_id) IN
       IF found = None
       THEN /\ last' = [ Resp("update_post", pwd, 404, "Post not found")
                           EXCEPT !.step = "lookup", !.worker = w,
                                  !.id = post_id, !.req = Some(raw) ]
            /\ UNCHANGED inflight
       ELSE LET call == [ Call("update_post", pwd, post_id, Some(raw)) EXCEPT
                            !.pc = "cleanup", !.snap = found ]
            IN /\ inflight' = [ inflight EXCEPT ![w] = call ]
               /\ last' = InFlight(w, "lookup", call)

\* delete_post up to its lookup.
DeleteLookup(w, pwd, post_id) ==
    /\ IdleWorker(w)
    /\ verify_password(pwd)
    /\ UNCHANGED <<supabase, posts, blobs, issued, now, updated, deleted>>
    /\ LET found == Lookup(post_id) IN
       IF found = None
       THEN /\ last' = [ Resp("delete_post", pwd, 404, "Post not found")
                           EXCEPT !.step = "lookup", !.worker = w,
                                  !.id = post_id ]
            /\ UNCHANGED inflight
       ELSE LET call == [ Call("delete_post", pwd, post_id, None) EXCEPT
                            !.pc = "cleanup", !.snap = found ]
            IN /\ inflight' = [ inflight EXCEPT ![w] = call ]
               /\ last' = InFlight(w, "lookup", call)

\* The blob cleanup of update_post and delete_post, decided on the row the
\* call loaded at its lookup, before the commit.  The remove call returns
\* with the object gone, or raises, and when it raises the object may be gone
\* all the same (the reply was lost).
RemoveBlob(w, raised, gone) ==
    /\ inflight[w] # Idle
    /\ inflight[w].pc = "cleanup"
    /\ UNCHANGED <<supabase, posts, issued, now, updated, deleted>>
    /\ LET call == inflight[w]
           db_post == call.snap[1]
           attempt == IF call.op = "update_post"
                      THEN UpdateRemovesBlob(db_post, PostUpdate(call.req[1]))
                      ELSE DeleteRemovesBlob(db_post)
           file_name == BlobKeyOf(db_post.image_url)
           after == [ call EXCEPT
                        !.pc = IF call.op = "update_post" THEN "assign"
                               ELSE "commit",
                        !.removed = IF attempt THEN <<file_name>> ELSE <<>>,
                        !.remove_failed = raised,
                        !.blob_removed = /\ attempt
                                         /\ gone
                                         /\ file_name \in blobs ]
       IN /\ raised => attempt
          /\ gone => attempt
          /\ (attempt /\ ~raised) => gone
          /\ blobs' = IF gone THEN blobs \ {file_name} ELSE blobs
          /\ IF HandlerContinues(raised)
             THEN /\ inflight' = [ inflight EXCEPT ![w] = after ]
                  /\ last' = InFlight(w, "cleanup", after)
             ELSE /\ inflight' = Done(w)
                  /\ last' = [ InFlight(w, "cleanup", after) EXCEPT
                                 !.status = 500,
                                 !.message = "Internal Server Error" ]

\* The five assignments of update_post, with the clock reading of line 145.
UpdateAssign(w) ==
    /\ inflight[w] # Idle
    /\ inflight[w].op = "update_post"
    /\ inflight[w].pc = "assign"
    /\ UNCHANGED <<supabase, posts, blobs, issued, updated, deleted>>
    /\ \E t \in now..MaxClock :
         LET after == [ inflight[w] EXCEPT !.pc = "commit", !.t = t ]
         IN /\ now' = t
            /\ inflight' = [ inflight EXCEPT ![w] = after ]
            /\ last' = InFlight(w, "assign", after)

\* db.commit() of update_post.  The unit of work emits an UPDATE only when an
\* assigned value differs from the one the lookup loaded; an UPDATE of a row
\* that is gone since the lookup raises StaleDataError, and without an UPDATE
\* the commit returns and it is the refresh that finds the row gone.  The
\* commit may also raise by itself.
UpdateCommit(w, raised) ==
    /\ inflight[w] # Idle
    /\ inflight[w].op = "update_post"
    /\ inflight[w].pc = "commit"
    /\ UNCHANGED <<supabase, blobs, issued, now, deleted>>
    /\ LET call == inflight[w]
           row == UpdatedRow(call.snap[1], PostUpdate(call.req[1]), call.t)
           dirty == row # call.snap[1]
           stale == dirty /\ call.id \notin DOMAIN posts
           after == [ call EXCEPT !.pc = "refresh" ]
       IN IF raised \/ stale
          THEN /\ posts' = RowsAfterFailedCommit(call, row)
               /\ inflight' = Done(w)
               /\ last' = [ InFlight(w, "commit", call) EXCEPT
                              !.status = 500,
                              !.message = IF raised THEN "OperationalError"
                                          ELSE "StaleDataError",
                              !.commit_failed = TRUE ]
               /\ UNCHANGED updated
          ELSE IF ~dirty
          THEN /\ inflight' = [ inflight EXCEPT ![w] = after ]
               /\ last' = InFlight(w, "commit", after)
               /\ UNCHANGED <<posts, updated>>
          ELSE /\ posts' = Put(posts, Flush(posts[call.id], call.snap[1], row))
               /\ updated' = updated \cup {call.id}
               /\ inflight' = Overlapping(w, after, call.id, "update")
               /\ last' = InFlight(w, "commit", after)

\* db.delete(db_post) and db.commit() of delete_post, and its return.  A
\* DELETE that matches no row any more is only warned about.
DeleteCommit(w, raised) ==
    /\ inflight[w] # Idle
    /\ inflight[w].op = "delete_post"
    /\ inflight[w].pc = "commit"
    /\ UNCHANGED <<supabase, blobs, issued, now>>
    /\ LET call == inflight[w] IN
       IF raised
       THEN /\ posts' = RowsAfterFailedCommit(call, call.snap[1])
            /\ inflight' = Done(w)
            /\ last' = [ InFlight(w, "commit", call) EXCEPT
                           !.status = 500, !.message = "OperationalError",
                           !.commit_failed = TRUE ]
            /\ UNCHANGED <<updated, deleted>>
       ELSE /\ posts' = IF call.id \in DOMAIN posts
                        THEN RowsAfterDelete(call.snap[1]) ELSE posts
            /\ updated' = updated \ {call.id}
            /\ deleted' = deleted \cup {call.id}
            /\ inflight' = Overlapping(w, Idle, call.id, "delete")
            /\ last' = [ InFlight(w, "commit", call) EXCEPT
                           !.status = 200,
                           !.message =
                               "Post and associated image deleted successfully" ]

\* ---- upload_image -------------------------------------------------------
\* The detail of line 155, without the diacritics of the source text.
KeysNotSet == "Supabase kluce nie su nastavene na Renderi."

\* What the storage answers to an upload: the object is stored and the call
\* returns; the call raises and nothing is stored; the call, or
\* get_public_url after it, raises although the object is stored.
UploadOutcomes == {"stored", "raised", "stored_raised"}

\* POST /upload-image with the secret and a form that has no part named
\* file: the parameter of line 153 is required, the handler is not entered.
UploadFileMissing(pwd) ==
    /\ verify_password(pwd)
    /\ last' = Resp("upload_image", pwd, 422, "missing")
    /\ StoresUnchanged
    /\ UNCHANGED supabase

\* POST /upload-image up to await file.read(): the 500 without a storage
\* client, or the object name drawn with uuid4().
UploadRead(w, pwd, filename) ==
    /\ IdleWorker(w)
    /\ verify_password(pwd)
    /\ UNCHANGED <<supabase, posts, blobs, now, updated, deleted>>
    /\ IF ~supabase
       THEN /\ last' = Early(w, "read",
                              Resp("upload_image", pwd, 500, KeysNotSet))
            /\ UNCHANGED <<issued, inflight>>
       ELSE \E uuid \in Uuids \ issued :
              LET call == [ Call("upload_image", pwd, 0, None) EXCEPT
                              !.pc = "store",
                              !.file_name = FileName(uuid, FileExt(filename)) ]
              IN /\ issued' = issued \cup {uuid}
                 /\ inflight' = [ inflight EXCEPT ![w] = call ]
                 /\ last' = InFlight(w, "read", call)

\* upload(...), get_public_url(...) and the return; every exception of the
\* try block is answered 500 with str(e) as detail.
UploadStore(w, outcome) ==
    /\ inflight[w] # Idle
    /\ inflight[w].pc = "store"
    /\ inflight' = Done(w)
    /\ UNCHANGED <<supabase, issued, now, updated, deleted>>
    /\ LET call == inflight[w] IN
       /\ posts' = RowsAfterUpload(PublicUrl(call.file_name))
       /\ blobs' = IF outcome = "raised" THEN blobs
                   ELSE blobs \cup {call.file_name}
       /\ last' = IF outcome = "stored"
                  THEN [ InFlight(w, "store", call) EXCEPT
                           !.status = 200, !.message = "",
                           !.image_url = PublicUrl(call.file_name) ]
                  ELSE [ InFlight(w, "store", call) EXCEPT
                           !.status = 500, !.message = "str(e)" ]

\* DELETE /posts: the only routes on the path /posts are GET and POST, so the
\* router answers 405 before any dependency or handler runs.
DeleteAllPosts(pwd) ==
    /\ last' = Resp("delete_all", pwd, 405, "Method Not Allowed")
    /\ StoresUnchanged
    /\ UNCHANGED supabase

\* ---- one call at a time -------------------------------------------------
\* Under Spec a call arrives when no other call is in flight, the record
\* store answers every commit, and what clients were handed is not followed.
Quiet == inflight = NoCalls /\ UNCHANGED history
Step == UNCHANGED history

Next ==
    \/ \E op \in BodyRoutes, pwd \in Headers :
         Quiet /\ JsonDecodeRaises(op, pwd)
    \/ \E pwd \in Headers : Quiet /\ FormParseRaises(pwd)
    \/ \E op \in GatedRoutes, pwd \in Headers :
         Quiet /\ VerifyPasswordRaises(op, pwd)
    \/ \E pwd \in Headers : Quiet /\ UploadFileMissing(pwd)
    \/ \E skip \in 0..MaxLimit, limit \in 0..MaxLimit :
         Quiet /\ GetPosts(skip, limit)
    \/ \E limit \in 1..MaxLimit : Quiet /\ Paginate(limit)
    \/ \E pwd \in Headers : Quiet /\ DeleteAllPosts(pwd)
    \/ \E w \in Workers, pwd \in Headers, raw \in Bodies :
         Quiet /\ CreateBuild(w, pwd, raw)
    \/ \E w \in Workers, id \in Ids : Step /\ CreateCommit(w, id, FALSE)
    \/ \E w \in Workers : Step /\ Refresh(w)
    \/ \E w \in Workers, pwd \in Headers, post_id \in Ids, raw \in Bodies :
         Quiet /\ UpdateLookup(w, pwd, post_id, raw)
    \/ \E w \in Workers, pwd \in Headers, post_id \in Ids :
         Quiet /\ DeleteLookup(w, pwd, post_id)
    \/ \E w \in Workers, raised \in BOOLEAN, gone \in BOOLEAN :
         Step /\ RemoveBlob(w, raised, gone)
    \/ \E w \in Workers : Step /\ UpdateAssign(w)
    \/ \E w \in Workers : Step /\ UpdateCommit(w, FALSE)
    \/ \E w \in Workers : Step /\ DeleteCommit(w, FALSE)
    \/ \E w \in Workers, pwd \in Headers, filename \in Filenames :
         Quiet /\ UploadRead(w, pwd, filename)
    \/ \E w \in Workers, outcome \in UploadOutcomes :
         Step /\ UploadStore(w, outcome)

Spec == Init /\ [][Next]_vars

\* ---- interleaved calls ---------------------------------------------------
\* Under SpecRace the calls of all workers interleave step by step and a
\* commit may raise.  The calls carry the secret (the gate is covered by
\* Spec), and the clients keep the discipline of Supplies.
Secret == Some(ADMIN_PASSWORD)

\* Bodies of the interleaved calls: no image, one uploaded image, another.
RaceBodies ==
    { Body(Some("A"), Some("B"), None, None),
      Body(Some("A2"), Some("B2"), Url1, Some(FALSE)),
      Body(Some("A2"), Some("B2"), Url2, Some(TRUE)) }

\* Client discipline: a non-null image_url was returned by an earlier upload
\* and has been supplied for no other post.  history.supplied pairs a URL
\* with the post it was supplied for: the id of the post, -w for the post
\* that the create on worker w is about to insert, 0 for a post that is
\* deleted or was never inserted.
Supplies(image_url, post) ==
    \/ image_url = None
    \/ /\ image_url \in history.returned
       /\ \A p \in history.supplied : p[1] = image_url => p[2] = post

Supplied(h, image_url, post) ==
    IF image_url = None THEN h
    ELSE [ h EXCEPT !.supplied = @ \cup { <<image_url, post>> } ]

\* The post known as old is known as new from now on.
Renamed(h, old, new) ==
    [ h EXCEPT !.supplied =
        { IF p[2] = old THEN <<p[1], new>> ELSE p : p \in @ } ]

\* One more call has arrived.
Counted(h) == [ h EXCEPT !.calls = @ + 1 ]

Disciplined ==
    \A p \in history.supplied :
       /\ p[1] \in history.returned
       /\ \A q \in history.supplied : q[1] = p[1] => q[2] = p[2]

NextRace ==
    \/ \E w \in Workers, raw \in RaceBodies :
         /\ history.calls < MaxCalls
         /\ Supplies(raw.image_url, -w)
         /\ history' = Counted(Supplied(history, raw.image_url, -w))
         /\ CreateBuild(w, Secret, raw)
    \/ \E w \in Workers, id \in Ids, raised \in BOOLEAN :
         /\ CreateCommit(w, id, raised)
         /\ history' = Renamed(history, -w, IF raised THEN 0 ELSE id)
    \/ \E w \in Workers : Refresh(w) /\ UNCHANGED history
    \/ \E w \in Workers, post_id \in Ids, raw \in RaceBodies :
         /\ history.calls < MaxCalls
         /\ Supplies(raw.image_url, post_id)
         /\ history' = Counted(Supplied(history, raw.image_url, post_id))
         /\ UpdateLookup(w, Secret, post_id, raw)
    \/ \E w \in Workers, post_id \in Ids :
         /\ history.calls < MaxCalls
         /\ history' = Counted(history)
         /\ DeleteLookup(w, Secret, post_id)
    \/ \E w \in Workers, raised \in BOOLEAN, gone \in BOOLEAN :
         RemoveBlob(w, raised, gone) /\ UNCHANGED history
    \/ \E w \in Workers : UpdateAssign(w) /\ UNCHANGED history
    \/ \E w \in Workers, raised \in BOOLEAN :
         UpdateCommit(w, raised) /\ UNCHANGED history
    \/ \E w \in Workers, raised \in BOOLEAN :
         /\ DeleteCommit(w, raised)
         /\ history' = IF last'.status = 200
                       THEN Renamed(history, last'.id, 0) ELSE history
    \/ \E w \in Workers, filename \in Filenames :
         UploadRead(w, Secret, filename) /\ UNCHANGED history
    \/ \E w \in Workers, outcome \in UploadOutcomes :
         /\ UploadStore(w, outcome)
         /\ history' = IF last'.status = 200
                       THEN [ history EXCEPT !.returned =
                                @ \cup { last'.image_url } ]
                       ELSE history

SpecRace == Init /\ [][NextRace]_vars

\* ---- properties ---------------------------------------------------------
\* In every step, last' describes the call that took the step: its route
\* (op), the step of the handler (step), the worker, and what the call has
\* settled of its response (status 0 while it is in flight).  The unprimed
\* variables are the stores before the step and the primed ones after it;
\* inflight[last'.worker] holds the local variables of the call before the
\* step.

\* Positions <<page, index>> of the rows of a response, and the rows.
Slots(pages) ==
    UNION { { <<k, j>> : j \in DOMAIN pages[k] } : k \in DOMAIN pages }

AllRowsOf(pages) == { pages[s[1]][s[2]] : s \in Slots(pages) }

\* The step is the step named, of a call to the route named.
StepOf(op, step) == last'.op = op /\ last'.step = step

\* The step issues a remove call to the attachment store.
Removing == last'.step = "cleanup" /\ last'.removed # <<>>

\* C1 as stated: a blob delete is attempted exactly when an update of an
\* existing post finds a non-null stored image_url that differs from the
\* incoming one, or a delete finds a non-null stored image_url; the key is the
\* final path segment of the stored URL.
C1_AsStated ==
    [][ /\ Removing <=>
            \/ /\ StepOf("update_post", "cleanup")
               /\ posts[last'.id].image_url # None
               /\ posts[last'.id].image_url # PostUpdate(last'.req[1]).image_url
            \/ /\ StepOf("delete_post", "cleanup")
               /\ posts[last'.id].image_url # None
        /\ Removing => last'.removed = << Last(posts[last'.id].image_url) >>
      ]_vars

\* C1 amended: a blob delete is attempted exactly when the storage client is
\* configured and either an update of an existing post finds a stored
\* image_url that is neither null nor empty and differs from the incoming one,
\* or a delete of an existing post finds a stored image_url that is neither
\* null nor empty; the key is the final path segment of the OLD stored URL;
\* no other step of any call (create, list, upload, same-image update)
\* removes a blob.
C1_BlobDeleteSituations ==
    [][ /\ Removing <=>
            /\ supabase
            /\ \/ /\ StepOf("update_post", "cleanup")
                  /\ Truthy(posts[last'.id].image_url)
                  /\ posts[last'.id].image_url # PostUpdate(last'.req[1]).image_url
               \/ /\ StepOf("delete_post", "cleanup")
                  /\ Truthy(posts[last'.id].image_url)
        /\ Removing => last'.removed = << Last(posts[last'.id].image_url) >>
        /\ ~Removing => blobs \subseteq blobs'
      ]_vars

\* An update has replaced one uploaded image by another and asked the store to
\* remove the old key, not the incoming one.
C1_Witness ==
    /\ last.op = "update_post"
    /\ last.status = 200
    /\ last.post[1].image_url = Url2
    /\ last.removed = << BlobKeyOf(Url1) >>

\* C2: when the best-effort remove call fails, the call goes on: the update
\* still persists and returns the record with the request's values, the
\* delete still removes the record and returns its confirmation; the call
\* answers 200 and the remove was issued once.
C2_CleanupFailureIsInvisible ==
    last.remove_failed =>
        /\ last.status \in {0, 200}
        /\ last.status = 0 => inflight[last.worker] # Idle
        /\ Len(last.removed) = 1
        /\ last.op \in {"update_post", "delete_post"}
        /\ ( last.op = "update_post" /\ last.step \in {"commit", "refresh"} ) =>
              /\ last.id \in DOMAIN posts
              /\ last.step = "refresh" => last.post = Some(posts[last.id])
              /\ LET row == posts[last.id]
                     post_update == PostUpdate(last.req[1])
                 IN /\ row.title = post_update.title
                    /\ row.text = post_update.text
                    /\ row.image_url = post_update.image_url
                    /\ row.include_timestamps = post_update.include_timestamps
        /\ ( last.op = "delete_post" /\ last.step = "commit" ) =>
              /\ last.status = 200
              /\ last.id \notin DOMAIN posts
              /\ last.message = "Post and associated image deleted successfully"

\* The remove call of an image-changing update has failed and the response
\* carries the new image_url.
C2_Witness ==
    /\ last.op = "update_post"
    /\ last.remove_failed
    /\ last.status = 200
    /\ last.post # None
    /\ last.post[1].image_url = Url2

\* C3: an authorized, well-formed update or delete whose id names no existing
\* post answers 404 at its lookup and changes neither the posts table nor the
\* attachment store, and attempts no blob delete.
C3_NotFoundHasNoEffect ==
    [][ ( /\ last'.op \in {"update_post", "delete_post"}
          /\ last'.step = "lookup"
          /\ last'.op = "update_post" => ValidBody(last'.req[1])
          /\ last'.id \notin DOMAIN posts )
        => /\ verify_password(last'.pwd)
           /\ last'.status = 404
           /\ posts' = posts
           /\ blobs' = blobs
           /\ last'.removed = <<>>
           /\ inflight' = inflight
      ]_vars

\* An update of an id that names no post was answered 404 while another post,
\* with an image in the store, existed.
C3_Witness ==
    /\ last.op = "update_post"
    /\ last.status = 404
    /\ last.id \notin DOMAIN posts
    /\ \E i \in DOMAIN posts :
         Truthy(posts[i].image_url) /\ BlobKeyOf(posts[i].image_url) \in blobs

\* C4 as stated: every create, update, delete, delete-all and upload call
\* whose header is missing or differs from the secret answers 401 and leaves
\* the posts table and the attachment store unmodified; list needs no secret.
C4_AsStated ==
    [][ /\ ( /\ last'.op \in {"create_post", "update_post", "delete_post",
                              "delete_all", "upload_image"}
             /\ last'.pwd # Some(ADMIN_PASSWORD) )
           => /\ last'.status = 401
              /\ posts' = posts
              /\ blobs' = blobs
        /\ last'.op = "get_posts" => last'.status = 200
      ]_vars

\* C5 as stated: an update whose body leaves include_timestamps out keeps the
\* stored include_timestamps, in the table and in the response.
C5_AsStated ==
    [][ /\ ( /\ StepOf("update_post", "commit")
             /\ ~last'.commit_failed
             /\ last'.req[1].include_timestamps = None )
           => posts'[last'.id].include_timestamps =
                posts[last'.id].include_timestamps
        /\ ( /\ StepOf("update_post", "refresh")
             /\ last'.status = 200
             /\ last'.req[1].include_timestamps = None )
           => last'.post[1].include_timestamps =
                inflight[last'.worker].snap[1].include_timestamps
      ]_vars

\* C6: an update of an existing post goes through; after its commit the
\* stored record has the request's title, text, image_url and
\* include_timestamps, a non-null updated_at >= at, and the id and at it had
\* before; the call answers 200 with the stored record.
C6_UpdateResult ==
    [][ /\ ( /\ StepOf("update_post", "lookup")
             /\ ValidBody(last'.req[1])
             /\ last'.id \in DOMAIN posts )
           => last'.status = 0 /\ inflight'[last'.worker] # Idle
        /\ StepOf("update_post", "commit")
           => /\ ~last'.commit_failed
              /\ last'.id \in DOMAIN posts'
              /\ LET row == posts'[last'.id]
                     old == posts[last'.id]
                     post_update == PostUpdate(last'.req[1])
                 IN /\ row.title = post_update.title
                    /\ row.text = post_update.text
                    /\ row.image_url = post_update.image_url
                    /\ row.include_timestamps = post_update.include_timestamps
                    /\ row.updated_at # None
                    /\ row.updated_at[1] >= row.at
                    /\ row.id = old.id
                    /\ row.at = old.at
        /\ StepOf("update_post", "refresh")
           => /\ last'.status = 200
              /\ last'.post = Some(posts[last'.id])
              /\ posts' = posts
      ]_vars

\* An update at a later clock reading has changed title, image and flag of a
\* post created earlier.
C6_Witness ==
    /\ last.op = "update_post"
    /\ last.status = 200
    /\ last.post[1].title = "A2"
    /\ last.post[1].image_url = Url2
    /\ last.post[1].at = 0
    /\ last.post[1].updated_at = Some(MaxClock)

\* C7: an existing post has updated_at = null iff no update has succeeded on
\* it since it was created.
C7_UpdatedAtNullIffNeverUpdated ==
    \A i \in DOMAIN posts : (posts[i].updated_at = None) <=> (i \notin updated)

\* One post has been updated and another, just created, has not.
C7_Witness ==
    /\ \E i \in DOMAIN posts : i \in updated
    /\ \E i \in DOMAIN posts : i \notin updated
    /\ last.op = "create_post"
    /\ last.status = 200
    /\ last.id \notin updated

\* C8: a create with a well-formed body goes through; its commit gives the
\* table exactly one new row, under an id of no row that existed before,
\* with a non-null at, a null updated_at and the request's title, text and
\* image_url, and changes no other row; the call answers 200 with that row.
C8_CreateResult ==
    [][ /\ ( StepOf("create_post", "build") /\ ValidBody(last'.req[1]) )
           => last'.status = 0 /\ inflight'[last'.worker] # Idle
        /\ StepOf("create_post", "commit")
           => /\ ~last'.commit_failed
              /\ last'.id \in Ids
              /\ last'.id \notin DOMAIN posts
              /\ DOMAIN posts' = DOMAIN posts \cup {last'.id}
              /\ \A i \in DOMAIN posts : posts'[i] = posts[i]
              /\ LET row == posts'[last'.id]
                     post == PostCreate(last'.req[1])
                 IN /\ row.id = last'.id
                    /\ row.at \in Clock
                    /\ row.updated_at = None
                    /\ row.title = post.title
                    /\ row.text = post.text
                    /\ row.image_url = post.image_url
        /\ StepOf("create_post", "refresh")
           => /\ last'.status = 200
              /\ last'.post = Some(posts[last'.id])
              /\ posts' = posts
      ]_vars

\* A post with an image reference has been created next to an existing post.
C8_Witness ==
    /\ last.op = "create_post"
    /\ last.status = 200
    /\ last.post[1].image_url = Url1
    /\ Cardinality(DOMAIN posts) = 2

\* C9: a successful delete removes the row; while the id is not created
\* again no list result holds it and a further delete of it answers 404; rows
\* appear only by create and disappear only by a successful delete, and a
\* list shows only rows of the table.
C9_DeletedStaysGone ==
    [][ /\ ( last'.op = "delete_post" /\ last'.status = 200 )
           => last'.id \in DOMAIN posts /\ last'.id \notin DOMAIN posts'
        /\ \A i \in deleted :
             /\ last'.op \in {"get_posts", "paginate"}
                  => \A row \in AllRowsOf(last'.pages) : row.id # i
             /\ ( StepOf("delete_post", "lookup") /\ last'.id = i )
                  => last'.status = 404
        /\ \A i \in DOMAIN posts' \ DOMAIN posts :
             StepOf("create_post", "commit") /\ last'.id = i
        /\ \A i \in DOMAIN posts \ DOMAIN posts' :
             last'.op = "delete_post" /\ last'.id = i /\ last'.status = 200
        /\ last'.op \in {"get_posts", "paginate"}
             => \A row \in AllRowsOf(last'.pages) :
                  row.id \in DOMAIN posts /\ row = posts[row.id]
      ]_vars

\* The second delete of an id has been answered 404 while another post exists.
C9_Witness ==
    /\ last.op = "delete_post"
    /\ last.status = 404
    /\ last.id \in deleted
    /\ posts # << >>

\* C10 as stated: a list returns at most limit rows, newest first, and the
\* consecutive pages read with no write in between hold every post exactly
\* once, also when posts have equal at.
C10_AsStated ==
    /\ last.op \in {"get_posts", "paginate"} =>
         \A k \in DOMAIN last.pages :
            /\ Len(last.pages[k]) <= last.limit
            /\ \A a, b \in DOMAIN last.pages[k] :
                 a < b => last.pages[k][a].at >= last.pages[k][b].at
    /\ last.op = "paginate" =>
         \A i \in DOMAIN posts :
            Cardinality({ <<k, j>> \in Slots(last.pages) :
                            last.pages[k][j].id = i }) = 1

\* C11 as stated: a create whose title or text is missing or empty is
\* answered with a client error and adds no record.
C11_AsStated ==
    [][ ( /\ last'.op = "create_post"
          /\ last'.step # ""
          /\ \/ last'.req[1].title \in {None, Some("")}
             \/ last'.req[1].text \in {None, Some("")} )
        => /\ last'.status \in {0} \cup (400..499)
           /\ last'.status = 0 => last'.step = "build"
           /\ posts' = posts
      ]_vars

\* C12 as stated: DELETE /posts with the correct secret succeeds, removes
\* every post record and issues no blob delete.
C12_AsStated ==
    [][ ( last'.op = "delete_all" /\ verify_password(last'.pwd) )
        => /\ last'.status = 200
           /\ posts' = << >>
           /\ blobs' = blobs
           /\ last'.removed = <<>>
      ]_vars

\* C13: no step of an upload, whatever its outcome, changes the posts table;
\* an upload that enters its handler answers 500 without a URL when the
\* storage client is not configured or the store fails, and 200 with the URL
\* of the blob it stored otherwise; the image_url of a row changes, or a row appears, only in the
\* commit of a create or update that carries that image_url.
C13_UploadTouchesNoRecord ==
    [][ /\ last'.op = "upload_image" =>
             /\ posts' = posts
             /\ last'.step # "" => last'.status \in {0, 200, 500}
             /\ (last'.step = "read" /\ ~supabase) => last'.status = 500
             /\ last'.status = 500 => last'.image_url = None
             /\ last'.status = 200 =>
                  /\ last'.image_url # None
                  /\ BlobKeyOf(last'.image_url) \in blobs' \ blobs
        /\ \A i \in DOMAIN posts' :
             ( i \notin DOMAIN posts
               \/ posts'[i].image_url # posts[i].image_url )
             => /\ last'.op \in {"create_post", "update_post"}
                /\ last'.step = "commit"
                /\ last'.id = i
                /\ last'.req[1].image_url = posts'[i].image_url
      ]_vars

\* An upload has stored a blob while a post without image exists, and the URL
\* it returned is referenced by no post.
C13_Witness ==
    /\ last.op = "upload_image"
    /\ last.status = 200
    /\ posts # << >>
    /\ \A i \in DOMAIN posts : posts[i].image_url # last.image_url

\* C14: a create stores and returns include_timestamps as the body gives it,
\* and true when the body leaves it out; a list returns each row with the
\* include_timestamps the table holds.
C14_CreateKeepsFlag ==
    [][ LET given == last'.req[1].include_timestamps
            flag == IF given = None THEN TRUE ELSE given[1]
        IN /\ ( StepOf("create_post", "commit") /\ ~last'.commit_failed )
                => posts'[last'.id].include_timestamps = flag
           /\ ( last'.op = "create_post" /\ last'.status = 200 )
                => last'.post[1].include_timestamps = flag
           /\ last'.op = "get_posts" =>
                \A row \in AllRowsOf(last'.pages) :
                   /\ row.id \in DOMAIN posts
                   /\ row.include_timestamps = posts[row.id].include_timestamps
      ]_vars

\* A list has returned, with include_timestamps false, a post created with
\* include_timestamps false and never updated since.
C14_Witness ==
    /\ last.op = "get_posts"
    /\ \E row \in AllRowsOf(last.pages) :
         /\ row.include_timestamps = FALSE
         /\ row.updated_at = None

\* C15 as stated: the commit of an update, after another update of the same
\* post committed while it was in flight, goes through, and the stored record
\* then carries title, text, image_url and include_timestamps of its own
\* request.
C15_AsStated ==
    [][ ( /\ StepOf("update_post", "commit")
          /\ last'.overlap = "update"
          /\ ~last'.commit_failed )
        => /\ last'.id \in DOMAIN posts'
           /\ LET row == posts'[last'.id]
                  post_update == PostUpdate(last'.req[1])
              IN /\ row.title = post_update.title
                 /\ row.text = post_update.text
                 /\ row.image_url = post_update.image_url
                 /\ row.include_timestamps = post_update.include_timestamps
      ]_vars

\* C16 as stated: with disciplined clients every post with a non-null
\* image_url references a blob that is present in the attachment store.
C16_AsStated ==
    Disciplined =>
        \A i \in DOMAIN posts :
           posts[i].image_url # None => Last(posts[i].image_url) \in blobs

\* C16: a blob leaves the attachment store only in the cleanup step of an
\* update or delete call, the key removed is the last path segment of the
\* image_url that call loaded from its post at the lookup, and with
\* disciplined clients no post under another id references that blob; the
\* cleanup comes before the call's commit, so the post itself may reference a
\* missing blob.
C16_BlobLeavesOnlyForItsPost ==
    [][ /\ \A k \in blobs \ blobs' :
             /\ last'.op \in {"update_post", "delete_post"}
             /\ last'.step = "cleanup"
             /\ last'.removed = <<k>>
             /\ LET call == inflight[last'.worker] IN
                  /\ call.id = last'.id
                  /\ Truthy(call.snap[1].image_url)
                  /\ Last(call.snap[1].image_url) = k
             /\ Disciplined =>
                  \A j \in DOMAIN posts \ {last'.id} :
                     \/ posts[j].image_url = None
                     \/ Last(posts[j].image_url) # k
        /\ ( last'.step = "cleanup" /\ last'.removed # <<>> )
             => LET call == inflight[last'.worker] IN
                  /\ Truthy(call.snap[1].image_url)
                  /\ last'.removed = << Last(call.snap[1].image_url) >>
      ]_vars

\* A call in flight has removed the blob of its post, which still references
\* it, while the blob of another post is in place.
C16_Witness ==
    /\ last.status = 0
    /\ last.blob_removed
    /\ last.id \in DOMAIN posts
    /\ posts[last.id].image_url # None
    /\ last.removed = << Last(posts[last.id].image_url) >>
    /\ \E j \in DOMAIN posts \ {last.id} :
         /\ Truthy(posts[j].image_url)
         /\ Last(posts[j].image_url) \in blobs

\* C17 as stated: a failed commit of an update or delete is answered with a
\* server error, the posts table is as before and the call has removed no
\* blob.
C17_AsStated ==
    [][ ( /\ last'.commit_failed
          /\ last'.op \in {"update_post", "delete_post"} )
        => /\ last'.status = 500
           /\ posts' = posts
           /\ blobs' = blobs
           /\ ~last'.blob_removed
      ]_vars

\* C17: a failed commit of an update or delete is answered with a server
\* error and the posts table is as before; a blob the call removed in its
\* cleanup, before the commit, is not put back.
C17_FailedCommitKeepsRecord ==
    [][ ( /\ last'.commit_failed
          /\ last'.op \in {"update_post", "delete_post"} )
        => /\ last'.step = "commit"
           /\ last'.status = 500
           /\ inflight'[last'.worker] = Idle
           /\ posts' = posts
           /\ blobs' = blobs
           /\ last'.blob_removed => last'.removed[1] \notin blobs'
      ]_vars

\* The commit of a call failed after the call had removed the blob of its
\* post: the post is still there and references the missing blob.
C17_Witness ==
    /\ last.commit_failed
    /\ last.op \in {"update_post", "delete_post"}
    /\ last.blob_removed
    /\ last.id \in DOMAIN posts
    /\ posts[last.id].image_url # None
    /\ last.removed = << Last(posts[last.id].image_url) >>
    /\ Last(posts[last.id].image_url) \notin blobs

====
